---- MODULE Spec2Model ----
(***************************************************************************)
(* Rule 901 (number of outgoing transactions - debtor): the rule           *)
(* evaluation engine (handleTransaction, handleTransactionWithTenantConfig)*)
(* and its tenant configuration cache (TenantConfigManager).               *)
(*                                                                         *)
(* JavaScript values are tagged records so that every comparison TLC makes *)
(* is between values of one shape: a value is [k, n] with k its type tag   *)
(* and n its number (0 when it is not a number); an identifier (tenant id, *)
(* rule id, cache key) is a sequence of one-character strings, so that     *)
(* template-string concatenation and startsWith are computed, not assumed. *)
(***************************************************************************)
EXTENDS Integers, Sequences, FiniteSets, TLC

\* ---------------------------------------------------------------- bounds
MaxBands == 2      \* longest enumerated band list (the fixture's list is added as is)
MaxLimit == 2      \* largest enumerated band limit
MaxCount == 4      \* largest history count
MaxEvals == 2      \* evaluations started in one run of SpecEval
MaxOps == 3        \* operations started in one run of the tenant specifications
MaxTime == 2       \* last clock tick
CacheTtl == 1      \* cacheConfig.ttl handed to the manager, in clock ticks
QueryRange == 2    \* config.parameters.maxQueryRange of the valid configurations
TriggerTime == 3   \* CreDtTm of the requests

\* ------------------------------------------------------------ JS values
Absent == -1       \* an optional number that is undefined

Num(n) == [k |-> "number", n |-> n]
StrVal == [k |-> "string", n |-> 0]
NullVal == [k |-> "null", n |-> 0]
UndefVal == [k |-> "undefined", n |-> 0]

\* `x == null` / `x != null`: loose equality, true of null and undefined only
IsNullish(v) == v.k \in {"null", "undefined"}

\* `typeof x === 'number'`
IsNumber(v) == v.k = "number"

\* `!x` for an optional number: undefined and 0 are falsy
Falsy(x) == x = Absent \/ x = 0

\* ------------------------------------------------------------ identifiers
Colon == <<":">>
TenantA == <<"a">>
TenantAB == <<"a", ":", "b">>
EmptyId == <<>>
Rule901 == <<"9", "0", "1">>
Rule902 == <<"9", "0", "2">>

TenantIds == {TenantA, TenantAB}
RuleIds == {Rule901, Rule902}

\* key.startsWith(prefix)
StartsWith(key, prefix) ==
    /\ Len(key) >= Len(prefix)
    /\ SubSeq(key, 1, Len(prefix)) = prefix

\* ------------------------------------------------------------ rule results
InitialRuleRes ==
    [id |-> "901@1.0.0", cfg |-> "1.0.0", subRuleRef |-> ".00", reason |-> ""]

OtherRuleRes ==
    [id |-> "901@1.0.0", cfg |-> "2.0.0", subRuleRef |-> ".09", reason |-> "prior"]

RuleResInputs == {InitialRuleRes, OtherRuleRes}

\* ------------------------------------------------------------ bands
RefOf(i) == <<".01", ".02", ".03", ".04">>[i]
ReasonOf(i) == <<"band one", "band two", "band three", "band four">>[i]

MkBand(i, lo, up) ==
    [subRuleRef |-> RefOf(i), lowerLimit |-> lo, upperLimit |-> up, reason |-> ReasonOf(i)]

\* the fixture's bands: [.01 upper=2], [.02 2..4], [.03 lower=4]
TestBands == <<MkBand(1, Absent, 2), MkBand(2, 2, 4), MkBand(3, 4, Absent)>>

Limits == {Absent} \cup (0 .. MaxLimit)

BandLists ==
    {TestBands} \cup
    UNION {
        {[i \in 1 .. n |-> MkBand(i, f[i][1], f[i][2])] : f \in [1 .. n -> Limits \X Limits]}
        : n \in 1 .. MaxBands}

\* ------------------------------------------------------------ determineOutcome
\* a band whose upper limit is inclusive
BandAdmitsInclusiveUpper(band, value) ==
    /\ (Falsy(band.lowerLimit) \/ value >= band.lowerLimit)
    /\ (Falsy(band.upperLimit) \/ value <= band.upperLimit)

\* a band whose lower limit is exclusive
BandAdmitsExclusiveLower(band, value) ==
    /\ (Falsy(band.lowerLimit) \/ value > band.lowerLimit)
    /\ (Falsy(band.upperLimit) \/ value < band.upperLimit)

\* (!band.lowerLimit || value >= band.lowerLimit) && (!band.upperLimit || value < band.upperLimit)
BandAdmits(band, value) ==
    /\ (Falsy(band.lowerLimit) \/ value >= band.lowerLimit)
    /\ (Falsy(band.upperLimit) \/ value < band.upperLimit)

\* the for loop with its break: the index of the first admitting band from i on, 0 when none
RECURSIVE FirstBandFrom(_, _, _)
FirstBandFrom(bands, i, value) ==
    IF i > Len(bands) THEN 0
    ELSE IF BandAdmits(bands[i], value) THEN i
    ELSE FirstBandFrom(bands, i + 1, value)

\* the loop taking the last admitting band (a missing break)
RECURSIVE LastBandFrom(_, _, _)
LastBandFrom(bands, i, value) ==
    IF i > Len(bands) THEN 0
    ELSE LET later == LastBandFrom(bands, i + 1, value)
         IN  IF later # 0 THEN later
             ELSE IF BandAdmits(bands[i], value) THEN i ELSE 0

NoError == [msg |-> "", tenant |-> EmptyId, rule |-> EmptyId]
Err(m) == [msg |-> m, tenant |-> EmptyId, rule |-> EmptyId]

\* the query handed to the history store
NoQuery ==
    [ns |-> "", acct |-> "", at |-> 0, range |-> 0, notAfter |-> FALSE,
     byTenant |-> FALSE, tenant |-> EmptyId]

\* how a step of an evaluation ends: it throws, it returns, or it awaits the history
\* store with a query; called tells whether determineOutcome was called
Thrown(e, res) ==
    [kind |-> "throw", err |-> e, res |-> res, query |-> NoQuery, called |-> FALSE]
Returned(res) ==
    [kind |-> "return", err |-> NoError, res |-> res, query |-> NoQuery, called |-> FALSE]
Awaiting(q, res) ==
    [kind |-> "query", err |-> NoError, res |-> res, query |-> q, called |-> FALSE]
NoOutcome ==
    [kind |-> "none", err |-> NoError, res |-> InitialRuleRes, query |-> NoQuery,
     called |-> FALSE]

\* determineOutcome falling to the last band when no band admits the value
determineOutcomeDefaultLast(value, ruleConfig, ruleResult) ==
    IF IsNullish(value)
    THEN Thrown(Err("Value provided undefined, so cannot determine rule outcome"), ruleResult)
    ELSE IF ~ruleConfig.hasBands THEN Returned(ruleResult)
    ELSE LET first == FirstBandFrom(ruleConfig.bands, 1, value.n)
             i == IF first = 0 THEN Len(ruleConfig.bands) ELSE first
         IN  IF i = 0 THEN Returned(ruleResult)
             ELSE Returned([ruleResult EXCEPT
                               !.subRuleRef = ruleConfig.bands[i].subRuleRef,
                               !.reason = ruleConfig.bands[i].reason])

\* determineOutcome(value, ruleConfig, ruleResult): the outcome, whose res is also the
\* new content of the ruleResult object, which the function updates in place
determineOutcome(value, ruleConfig, ruleResult) ==
    IF IsNullish(value)
    THEN Thrown(Err("Value provided undefined, so cannot determine rule outcome"), ruleResult)
    ELSE IF ~ruleConfig.hasBands THEN Returned(ruleResult)
    ELSE LET i == FirstBandFrom(ruleConfig.bands, 1, value.n)
         IN  IF i = 0 THEN Returned(ruleResult)
             ELSE Returned([ruleResult EXCEPT
                               !.subRuleRef = ruleConfig.bands[i].subRuleRef,
                               !.reason = ruleConfig.bands[i].reason])

\* ------------------------------------------------------------ rule configurations
\* RuleConfig (TenantRuleConfig when tenantId is set); hasBands, hasExit and hasParams
\* tell whether config.bands, config.exitConditions and config.parameters are defined
MkConfig(tid, rid, hb, bands, he, exits, hp, mqr) ==
    [tenantId |-> tid, id |-> rid, hasBands |-> hb, bands |-> bands, hasExit |-> he,
     exitConditions |-> exits, hasParams |-> hp, maxQueryRange |-> mqr]

ExitX00 == [subRuleRef |-> ".x00", reason |-> "Incoming transaction is unsuccessful"]
ExitOther == [subRuleRef |-> "something", reason |-> "Incoming transaction is unsuccessful"]

\* the tenant fixture's second band list: the same limits shifted by one
TenantBands2 == <<MkBand(1, Absent, 1), MkBand(2, 1, 3), MkBand(3, 3, Absent)>>

BandChoices == {<<FALSE, <<>>>>, <<TRUE, <<>>>>, <<TRUE, TestBands>>}
ExitChoices == {<<FALSE, <<>>>>, <<TRUE, <<ExitX00>>>>, <<TRUE, <<ExitOther>>>>,
                <<TRUE, <<ExitOther, ExitX00>>>>}
ParamChoices == {<<FALSE, Absent>>, <<TRUE, Absent>>, <<TRUE, 0>>, <<TRUE, QueryRange>>}

\* every shape of configuration a caller may hand to handleTransaction
RuleConfigs ==
    {MkConfig(EmptyId, Rule901, b[1], b[2], e[1], e[2], q[1], q[2]) :
        b \in BandChoices, e \in ExitChoices, q \in ParamChoices}

\* the configuration records a tenant may store
TenantConfig(tid, rid, v) ==
    IF v = 1
    THEN MkConfig(tid, rid, TRUE, TestBands, TRUE, <<ExitX00>>, TRUE, QueryRange)
    ELSE MkConfig(tid, rid, TRUE, TenantBands2, TRUE, <<ExitOther>>, TRUE, QueryRange)

NoConfig == MkConfig(EmptyId, EmptyId, FALSE, <<>>, FALSE, <<>>, FALSE, Absent)

\* ------------------------------------------------------------ requests
StrId(s) == [k |-> "string", s |-> s]
NoId(k) == [k |-> k, s |-> EmptyId]

MkRequest(tenant, sts, acct, at) ==
    [TenantId |-> tenant, TxSts |-> sts, dbtrAcctId |-> acct, CreDtTm |-> at]

TenantFields == {NoId("absent"), NoId("number"), StrId(EmptyId), StrId(TenantA)}
AcctFields == {[k |-> "undefined", s |-> ""], [k |-> "string", s |-> "dbtrAcct_1"]}

Requests ==
    {MkRequest(t, s, a, TriggerTime) : t \in TenantFields, s \in {"ACCC", "RJCT"}, a \in AcctFields}

\* a type guard that accepts every request
isTenantsRuleRequestAny(req) == TRUE

\* 'TenantId' in req && typeof req.TenantId === 'string'
isTenantsRuleRequest(req) == req.TenantId.k = "string"

\* a type guard that also requires a non-empty TenantId
isTenantsRuleRequestNonEmpty(req) == req.TenantId.k = "string" /\ req.TenantId.s # EmptyId

\* !req.DataCache.dbtrAcctId
NoDbtrAcctId(req) == req.dbtrAcctId.k # "string" \/ req.dbtrAcctId.s = ""

\* ------------------------------------------------------------ handleTransaction
\* the guards in another order: parameters before exitConditions
ConfigGuardParamsFirst(ruleConfig) ==
    IF ~ruleConfig.hasBands \/ Len(ruleConfig.bands) = 0
    THEN "Invalid config provided - bands not provided or empty"
    ELSE IF ~ruleConfig.hasParams
    THEN "Invalid config provided - parameters not provided"
    ELSE IF ~ruleConfig.hasExit
    THEN "Invalid config provided - exitConditions not provided"
    ELSE IF Falsy(ruleConfig.maxQueryRange)
    THEN "Invalid config provided - maxQueryRange parameter not provided"
    ELSE ""

\* the guard pattern on the configuration: the message of the first failing guard, "" when
\* none fails
ConfigGuard(ruleConfig) ==
    IF ~ruleConfig.hasBands \/ Len(ruleConfig.bands) = 0
    THEN "Invalid config provided - bands not provided or empty"
    ELSE IF ~ruleConfig.hasExit
    THEN "Invalid config provided - exitConditions not provided"
    ELSE IF ~ruleConfig.hasParams
    THEN "Invalid config provided - parameters not provided"
    ELSE IF Falsy(ruleConfig.maxQueryRange)
    THEN "Invalid config provided - maxQueryRange parameter not provided"
    ELSE ""

\* exitConditions.find(b => b.subRuleRef === '.x00'): its index, 0 when undefined
RECURSIVE FindX00(_, _)
FindX00(exits, i) ==
    IF i > Len(exits) THEN 0
    ELSE IF exits[i].subRuleRef = ".x00" THEN i
    ELSE FindX00(exits, i + 1)

\* Step 1 keeping the caller's reason
ExitStepKeepReason(req, ruleConfig, ruleRes) ==
    LET i == FindX00(ruleConfig.exitConditions, 1)
    IN  IF req.TxSts = "ACCC" THEN NoOutcome
        ELSE IF i = 0
        THEN Thrown(Err("Unsuccessful transaction and no exit condition in config"), ruleRes)
        ELSE Returned([ruleRes EXCEPT
                          !.subRuleRef = ruleConfig.exitConditions[i].subRuleRef])

\* Step 1 going on to the query when there is no '.x00' exit condition
ExitStepUnlessConfigured(req, ruleConfig, ruleRes) ==
    LET i == FindX00(ruleConfig.exitConditions, 1)
    IN  IF req.TxSts = "ACCC" \/ i = 0 THEN NoOutcome
        ELSE Returned([ruleRes EXCEPT !.reason = ruleConfig.exitConditions[i].reason,
                                      !.subRuleRef = ruleConfig.exitConditions[i].subRuleRef])

\* Step 1, early exit conditions: NoOutcome when the evaluation goes on
ExitStep(req, ruleConfig, ruleRes) ==
    LET i == FindX00(ruleConfig.exitConditions, 1)
    IN  IF req.TxSts = "ACCC" THEN NoOutcome
        ELSE IF i = 0
        THEN Thrown(Err("Unsuccessful transaction and no exit condition in config"), ruleRes)
        ELSE Returned([ruleRes EXCEPT !.reason = ruleConfig.exitConditions[i].reason,
                                      !.subRuleRef = ruleConfig.exitConditions[i].subRuleRef])

\* the AQL count query without its FILTER on TenantId
BuildQueryAnyTenant(req, ruleConfig) ==
    [ns |-> "accounts/", acct |-> req.dbtrAcctId.s, at |-> req.CreDtTm,
     range |-> ruleConfig.maxQueryRange, notAfter |-> TRUE, byTenant |-> FALSE,
     tenant |-> req.TenantId.s]

\* Step 2 of the options form: the AQL count query
BuildQuery(req, ruleConfig) ==
    [ns |-> "accounts/", acct |-> req.dbtrAcctId.s, at |-> req.CreDtTm,
     range |-> ruleConfig.maxQueryRange, notAfter |-> TRUE, byTenant |-> TRUE,
     tenant |-> req.TenantId.s]

\* Step 2 of the ordered-parameter form: the SQL count query
BuildQueryLegacy(req, ruleConfig) ==
    [ns |-> "", acct |-> req.dbtrAcctId.s, at |-> req.CreDtTm,
     range |-> ruleConfig.maxQueryRange, notAfter |-> FALSE, byTenant |-> FALSE,
     tenant |-> EmptyId]

\* the exit step taken before the dbtrAcctId guard
GuardsThenExitBeforeAcct(req, ruleConfig, ruleRes, q) ==
    IF ConfigGuard(ruleConfig) # "" THEN Thrown(Err(ConfigGuard(ruleConfig)), ruleRes)
    ELSE IF ExitStep(req, ruleConfig, ruleRes).kind # "none"
    THEN ExitStep(req, ruleConfig, ruleRes)
    ELSE IF NoDbtrAcctId(req)
    THEN Thrown(Err("Data Cache does not have required dbtrAcctId"), ruleRes)
    ELSE Awaiting(q, ruleRes)

\* the guards and Step 1, shared by the two forms, ending with the query q
GuardsThenExit(req, ruleConfig, ruleRes, q) ==
    IF ConfigGuard(ruleConfig) # "" THEN Thrown(Err(ConfigGuard(ruleConfig)), ruleRes)
    ELSE IF NoDbtrAcctId(req)
    THEN Thrown(Err("Data Cache does not have required dbtrAcctId"), ruleRes)
    ELSE IF ExitStep(req, ruleConfig, ruleRes).kind # "none"
    THEN ExitStep(req, ruleConfig, ruleRes)
    ELSE Awaiting(q, ruleRes)

\* the options form with its TenantId check taken after the config checks
handleTransactionStartConfigFirst(req, ruleConfig, ruleRes) ==
    IF ConfigGuard(ruleConfig) # "" THEN Thrown(Err(ConfigGuard(ruleConfig)), ruleRes)
    ELSE IF ~isTenantsRuleRequest(req)
    THEN Thrown(Err("TenantId not provided in request"), ruleRes)
    ELSE GuardsThenExit(req, ruleConfig, ruleRes, BuildQuery(req, ruleConfig))

\* handleTransaction(req, options) up to its await of the history store
handleTransactionStart(req, ruleConfig, ruleRes) ==
    IF ~isTenantsRuleRequest(req)
    THEN Thrown(Err("TenantId not provided in request"), ruleRes)
    ELSE GuardsThenExit(req, ruleConfig, ruleRes, BuildQuery(req, ruleConfig))

\* handleTransaction(req, determineOutcome, ruleRes, ...) up to its await
handleTransactionLegacyStart(req, ruleConfig, ruleRes) ==
    GuardsThenExit(req, ruleConfig, ruleRes, BuildQueryLegacy(req, ruleConfig))

\* ------------------------------------------------------------ history store
\* a stored transaction: the account it went to, its type, its CreDtTm and its tenant
MkTx(acct, txtp, t, tenant) == [acct |-> acct, TxTp |-> txtp, CreDtTm |-> t, TenantId |-> tenant]

\* the times that matter to a request at TriggerTime with the range QueryRange: just
\* before the window, its first instant, its last instant (the request's own), just after
TxTimes == {TriggerTime - QueryRange - 1, TriggerTime - QueryRange, TriggerTime,
            TriggerTime + 1}

AllTransactions ==
    {MkTx("dbtrAcct_1", "pacs.002.001.12", t, TenantA) : t \in TxTimes}
    \cup {MkTx("dbtrAcct_1", "pacs.002.001.12", TriggerTime, TenantAB),
          MkTx("dbtrAcct_2", "pacs.002.001.12", TriggerTime, TenantA),
          MkTx("dbtrAcct_1", "pacs.008.001.10", TriggerTime, TenantA)}

\* the contents of the history store the evaluations run against
HistoryStores == {{}, AllTransactions} \cup {{tx} : tx \in AllTransactions}

\* the id under which a database holds a transaction's account: the document id
\* accounts/<id> in transactionRelationship, the bare id in the transaction table
StoredId(tx, ns) == [ns |-> ns, acct |-> tx.acct]

\* the FILTER / WHERE of the count query q on one stored transaction
Matches(tx, q, ns) ==
    /\ StoredId(tx, ns) = [ns |-> q.ns, acct |-> q.acct]
    /\ tx.TxTp = "pacs.002.001.12"
    /\ q.at - tx.CreDtTm <= q.range
    /\ q.notAfter => tx.CreDtTm <= q.at
    /\ q.byTenant => tx.TenantId = q.tenant

\* COLLECT WITH COUNT INTO length / COUNT(*)
HistoryCount(h, q, ns) == Cardinality({tx \in h : Matches(tx, q, ns)})

\* ------------------------------------------------------------ history store answers
\* what a store may answer in place of a count (the answers the code guards against)
Malformed == {StrVal, NullVal, UndefVal}

MkAnswer(fail, batches, rows) == [fail |-> fail, batches |-> batches, rows |-> rows]
NoAnswer == MkAnswer(FALSE, <<>>, <<>>)

\* what batches.all() may resolve to for the query q on the store h, or the query rejecting
AqlAnswers(h, q) ==
    {MkAnswer(TRUE, <<>>, <<>>), MkAnswer(FALSE, <<>>, <<>>), MkAnswer(FALSE, <<<<>>>>, <<>>)}
    \cup {MkAnswer(FALSE, <<<<v>>>>, <<>>) :
            v \in Malformed \cup {Num(HistoryCount(h, q, "accounts/"))}}

\* what res.rows may hold (each row's length column), or the query rejecting
SqlAnswers(h, q) ==
    {MkAnswer(TRUE, <<>>, <<>>), MkAnswer(FALSE, <<>>, <<>>)}
    \cup {MkAnswer(FALSE, <<>>, <<v>>) : v \in Malformed \cup {Num(HistoryCount(h, q, ""))}}

StoreFailure == Err("Database connection failed")

\* unwrap(batches): the first element of the first batch, undefined without one
unwrap(batches) ==
    IF Len(batches) > 0 /\ Len(batches[1]) > 0 THEN batches[1][1] ELSE UndefVal

\* the null check written as a falsy check: 0 taken for a missing count
CountMissingFalsy(count) == IsNullish(count) \/ (IsNumber(count) /\ count.n = 0)

\* count == null
CountMissing(count) == IsNullish(count)

\* Step 4 without its two checks: every count goes to determineOutcome
PostProcessUnchecked(count, ruleConfig, ruleRes) ==
    [determineOutcome(count, ruleConfig, ruleRes) EXCEPT !.called = TRUE]

\* Step 4 on a count: the two data errors, then determineOutcome
PostProcess(count, ruleConfig, ruleRes) ==
    IF CountMissing(count)
    THEN Thrown(Err("Data error: irretrievable transaction history"), ruleRes)
    ELSE IF ~IsNumber(count)
    THEN Thrown(Err("Data error: query result type mismatch - expected a number"), ruleRes)
    ELSE [determineOutcome(count, ruleConfig, ruleRes) EXCEPT !.called = TRUE]

\* the history store's failure reported as a data error
handleTransactionResumeWrapped(answer, ruleConfig, ruleRes) ==
    IF answer.fail
    THEN Thrown(Err("Data error: irretrievable transaction history"), ruleRes)
    ELSE PostProcess(unwrap(answer.batches), ruleConfig, ruleRes)

\* handleTransaction(req, options) from the history store's answer on
handleTransactionResume(answer, ruleConfig, ruleRes) ==
    IF answer.fail THEN Thrown(StoreFailure, ruleRes)
    ELSE PostProcess(unwrap(answer.batches), ruleConfig, ruleRes)

\* the ordered-parameter form from the answer on: const [{ length }] = res.rows
handleTransactionLegacyResume(answer, ruleConfig, ruleRes) ==
    IF answer.fail THEN Thrown(StoreFailure, ruleRes)
    ELSE IF Len(answer.rows) = 0
    THEN Thrown(Err("TypeError: Cannot destructure property 'length' of undefined"), ruleRes)
    ELSE PostProcess(answer.rows[1], ruleConfig, ruleRes)

\* ------------------------------------------------------------ NodeCache
\* `${tenantId}:${ruleId}`
CacheKey(tenantId, ruleId) == tenantId \o Colon \o ruleId

\* entries that never expire
ExpiredNever(entry, t) == FALSE

\* _check: an entry with a ttl (t # 0) whose time has passed
Expired(entry, t) == entry.t # 0 /\ entry.t < t

\* no entry is ever found
CacheLiveNever(c, key, t) == FALSE

\* cache.get(key) finds an entry: it is held and has not expired
CacheLive(c, key, t) == key \in DOMAIN c /\ ~Expired(c[key], t)

\* a del that flushes the cache
CacheDelAll(c, keys) == [k \in {} |-> c[k]]

\* cache.del(keys)
CacheDel(c, keys) == [k \in DOMAIN c \ keys |-> c[k]]

\* the data after cache.get(key): an expired entry found by the read is deleted
CacheAfterGet(c, key, t) ==
    IF key \in DOMAIN c /\ Expired(c[key], t) THEN CacheDel(c, {key}) ELSE c

\* cache.set(key, val): the entry lives stdTTL from now, for ever when stdTTL is 0
CacheSet(c, key, val, t) ==
    [k \in DOMAIN c \cup {key} |->
        IF k = key THEN [val |-> val, t |-> IF CacheTtl = 0 THEN 0 ELSE t + CacheTtl]
        ELSE c[k]]

\* the periodic check (checkperiod): every expired entry
ExpiredKeys(c, t) == {k \in DOMAIN c : Expired(c[k], t)}

\* getCacheStats().keys
CacheStatsKeys(c) == Cardinality(DOMAIN c)

EmptyCache == [k \in {} |-> [val |-> NoConfig, t |-> 0]]

\* ------------------------------------------------------------ configuration store
\* what the query FILTER config.tenantId == tenantId AND config.id == ruleId may resolve
\* to: the stored record in one batch, or no record as no batch or an empty batch
ConfigBatches(db, tenantId, ruleId) ==
    IF <<tenantId, ruleId>> \in DOMAIN db /\ db[<<tenantId, ruleId>>] # 0
    THEN {<<<<TenantConfig(tenantId, ruleId, db[<<tenantId, ruleId>>])>>>>}
    ELSE {<<>>, <<<<>>>>}

\* collection('ruleConfiguration').save(config): the record under its natural key
ConfigSave(db, config, v) == [db EXCEPT ![<<config.tenantId, config.id>>] = v]

SaveFailure == Err("Database save failed")

\* ------------------------------------------------------------ TenantConfigManager
\* an empty first batch taken for a record
ResolvedUnchecked(batches) ==
    IF Len(batches) = 0 THEN NoConfig
    ELSE IF Len(batches[1]) = 0 THEN TenantConfig(EmptyId, EmptyId, 1)
    ELSE batches[1][1]

\* configs[FIRST_BATCH][FIRST_CONFIG], or null (NoConfig) when there is none
Resolved(batches) ==
    IF Len(batches) = 0 \/ Len(batches[1]) = 0 THEN NoConfig ELSE batches[1][1]

\* getTenantRuleConfig caching nothing
CacheAfterResolveNever(c, key, fail, batches, t) == c

\* getTenantRuleConfig caching what it resolved, null (NoConfig) included
CacheAfterResolveNull(c, key, fail, batches, t) ==
    IF fail THEN c ELSE CacheSet(c, key, Resolved(batches), t)

\* the cache after getTenantRuleConfig's await: the configuration found is cached
CacheAfterResolve(c, key, fail, batches, t) ==
    IF fail \/ Resolved(batches) = NoConfig THEN c
    ELSE CacheSet(c, key, Resolved(batches), t)

\* setTenantRuleConfig updating the cache whether or not the save succeeded
CacheAfterSaveAlways(c, config, fail, t) ==
    CacheSet(c, CacheKey(config.tenantId, config.id), config, t)

\* the cache after setTenantRuleConfig's await of the save
CacheAfterSave(c, config, fail, t) ==
    IF fail THEN c ELSE CacheSet(c, CacheKey(config.tenantId, config.id), config, t)

\* tenantKeys of clearTenantCache: keys.filter(key => key.startsWith(`${tenantId}:`))
TenantKeys(c, tenantId) == {k \in DOMAIN c : StartsWith(k, tenantId \o Colon)}

\* the error of handleTransactionWithTenantConfig without a configuration
NoRuleConfigError(tenantId, ruleId) ==
    [msg |-> "No rule configuration found for tenant: X, rule: Y",
     tenant |-> tenantId, rule |-> ruleId]

\* handleTransactionWithTenantConfig going on without a configuration
TenantEvalStartUnchecked(req, baseRuleId, tenantRuleConfig, res) ==
    handleTransactionStart(req, tenantRuleConfig, res)

\* handleTransactionWithTenantConfig evaluating with the first version of the tenant's
\* configuration instead of the resolved one
TenantEvalStartFirstVersion(req, baseRuleId, tenantRuleConfig, res) ==
    IF tenantRuleConfig = NoConfig
    THEN Thrown(NoRuleConfigError(req.TenantId.s, baseRuleId), res)
    ELSE handleTransactionStart(
             req, TenantConfig(tenantRuleConfig.tenantId, tenantRuleConfig.id, 1), res)

\* handleTransactionWithTenantConfig from the resolved configuration to the await of
\* handleTransaction
TenantEvalStart(req, baseRuleId, tenantRuleConfig, res) ==
    IF tenantRuleConfig = NoConfig
    THEN Thrown(NoRuleConfigError(req.TenantId.s, baseRuleId), res)
    ELSE handleTransactionStart(req, tenantRuleConfig, res)

\* ------------------------------------------------------------ the callers' record
\* gets[key]: the configuration val that the first getTenantRuleConfig of the key to
\* return one returned, the store queries q that call issued, the time t it returned, and
\* whether the key has since been removed (invalidateCache, clearTenantCache) or set
\* (setTenantRuleConfig)
NoGets ==
    [k \in {} |-> [val |-> NoConfig, q |-> 0, t |-> 0, removed |-> FALSE, set |-> FALSE]]

\* the record once the getTenantRuleConfig of frame f has returned
GetsAfterGet(g, f, t) ==
    LET key == CacheKey(f.tenant, f.rule)
        result == IF f.hit THEN f.rcfg ELSE IF f.cfail THEN NoConfig ELSE Resolved(f.cbatches)
    IN  IF f.own \/ key \in DOMAIN g \/ result = NoConfig THEN g
        ELSE [k \in DOMAIN g \cup {key} |->
                IF k = key
                THEN [val |-> result, q |-> f.q, t |-> t, removed |-> FALSE, set |-> FALSE]
                ELSE g[k]]

\* the record once the keys have been removed from the cache, or set
GetsMark(g, keys, what) ==
    [k \in DOMAIN g |->
        IF k \notin keys THEN g[k]
        ELSE IF what = "set" THEN [g[k] EXCEPT !.set = TRUE]
        ELSE [g[k] EXCEPT !.removed = TRUE]]

\* ------------------------------------------------------------ state
VARIABLES
    cache,        \* the manager's NodeCache data: key -> [val, t], t the expiry time
    cfgDb,        \* the configuration store: <<tenantId, id>> -> stored version, 0 for none
    hist,         \* the history store: the transactions it holds
    now,          \* the clock
    ops,          \* operations started
    gets,         \* the callers' record of getTenantRuleConfig: per key, what the first
                  \* call that returned a configuration returned, and what followed it
    ruleRes,      \* the caller's RuleResult object, shared by every call
    pc,           \* where each caller stands
    fr            \* each caller's call: its arguments, what it awaits, its outcome

vars == <<cache, cfgDb, hist, now, ops, gets, ruleRes, pc, fr>>

Procs == {"p1", "p2"}

NoRequest == MkRequest(NoId("absent"), "", [k |-> "undefined", s |-> ""], 0)

\* a caller's frame: the call's arguments (op, form, req, cfg, value, tenant, rule, own),
\* the caller's result object as it was at the call (in), what the stores answered
\* (answer for the history store; hit, cfail, cbatches for the cache and the configuration
\* store), its outcome (out; rcfg the configuration returned, NoConfig for null; ok the
\* boolean returned) and what the call did: the queries and saves it issued to the
\* configuration store (q, saves), its history queries (hq), its cache reads and writes
Frame0 ==
    [op |-> "none", form |-> "options", req |-> NoRequest, cfg |-> NoConfig,
     value |-> UndefVal, tenant |-> EmptyId, rule |-> EmptyId, own |-> FALSE,
     in |-> InitialRuleRes, answer |-> NoAnswer, hit |-> FALSE, cfail |-> FALSE,
     cbatches |-> <<>>, out |-> NoOutcome, rcfg |-> NoConfig, ok |-> FALSE,
     q |-> 0, saves |-> 0, hq |-> 0, reads |-> 0, writes |-> 0]

\* the configuration store at the manager's construction: no record, or version 1 of
\* every tenant's every rule
InitialStores == {[k \in TenantIds \X RuleIds |-> v] : v \in {0, 1}}

InitBase ==
    /\ cache = EmptyCache
    /\ now = 0
    /\ ops = 0
    /\ gets = NoGets

\* ------------------------------------------------------------ determineOutcome alone
DoValues == {Num(n) : n \in 0 .. MaxCount} \cup {NullVal, UndefVal}

BandsOnly(bands) == MkConfig(EmptyId, Rule901, TRUE, bands, FALSE, <<>>, FALSE, Absent)

InitOutcome ==
    /\ InitBase
    /\ hist = {}
    /\ cfgDb = [k \in TenantIds \X RuleIds |-> 0]
    /\ ruleRes \in RuleResInputs
    /\ pc = [p \in Procs |-> IF p = "p1" THEN "call" ELSE "idle"]
    /\ \E v \in DoValues, bands \in BandLists :
          fr = [p \in Procs |->
                  IF p = "p1"
                  THEN [Frame0 EXCEPT !.op = "determineOutcome", !.value = v,
                                      !.cfg = BandsOnly(bands), !.in = ruleRes]
                  ELSE Frame0]

\* the caller calls determineOutcome(value, ruleConfig, ruleRes) on its result object
DetermineOutcomeCall(p) ==
    /\ pc[p] = "call"
    /\ fr[p].op = "determineOutcome"
    /\ LET out == determineOutcome(fr[p].value, fr[p].cfg, ruleRes)
       IN  /\ fr' = [fr EXCEPT ![p].out = [out EXCEPT !.called = TRUE]]
           /\ ruleRes' = out.res
    /\ pc' = [pc EXCEPT ![p] = "done"]
    /\ UNCHANGED <<hist, cache, cfgDb, now, ops, gets>>

NextOutcome == \E p \in Procs : DetermineOutcomeCall(p)

SpecOutcome == InitOutcome /\ [][NextOutcome]_vars

\* ------------------------------------------------------------ direct evaluation
\* a caller starts handleTransaction in one of its two forms; the call runs to its first
\* await (the history query), or ends before it
EvalCall(p, forms, reqs, configs) ==
    /\ pc[p] = "idle"
    /\ ops < MaxEvals
    /\ \E form \in forms, req \in reqs, ruleConfig \in configs :
          LET step == IF form = "options"
                      THEN handleTransactionStart(req, ruleConfig, ruleRes)
                      ELSE handleTransactionLegacyStart(req, ruleConfig, ruleRes)
              f == [Frame0 EXCEPT !.op = "handleTransaction", !.form = form, !.req = req,
                                  !.cfg = ruleConfig, !.in = ruleRes]
          IN  IF step.kind = "query"
              THEN /\ fr' = [fr EXCEPT ![p] = [f EXCEPT !.out = step, !.hq = 1]]
                   /\ pc' = [pc EXCEPT ![p] = "await_history"]
              ELSE /\ fr' = [fr EXCEPT ![p] = [f EXCEPT !.out = step]]
                   /\ pc' = [pc EXCEPT ![p] = "done"]
    /\ ops' = ops + 1
    /\ UNCHANGED <<hist, cache, cfgDb, now, ruleRes, gets>>

\* the history store answers and handleTransaction resumes: Step 4 and determineOutcome
EvalResume(p) ==
    /\ pc[p] = "await_history"
    /\ \E answer \in (IF fr[p].form = "options" THEN AqlAnswers(hist, fr[p].out.query)
                      ELSE SqlAnswers(hist, fr[p].out.query)) :
          LET out == IF fr[p].form = "options"
                     THEN handleTransactionResume(answer, fr[p].cfg, ruleRes)
                     ELSE handleTransactionLegacyResume(answer, fr[p].cfg, ruleRes)
          IN  /\ fr' = [fr EXCEPT ![p].out = out, ![p].answer = answer]
              /\ ruleRes' = out.res
    /\ pc' = [pc EXCEPT ![p] = "done"]
    /\ UNCHANGED <<hist, cache, cfgDb, now, ops, gets>>

\* the caller takes the outcome and is free for its next call
Finish(p) ==
    /\ pc[p] = "done"
    /\ pc' = [pc EXCEPT ![p] = "idle"]
    /\ fr' = [fr EXCEPT ![p] = Frame0]
    /\ UNCHANGED <<hist, cache, cfgDb, now, ops, ruleRes, gets>>

InitEval ==
    /\ InitBase
    /\ hist \in HistoryStores
    /\ cfgDb = [k \in TenantIds \X RuleIds |-> 0]
    /\ ruleRes \in RuleResInputs
    /\ pc = [p \in Procs |-> "idle"]
    /\ fr = [p \in Procs |-> Frame0]

NextEval ==
    \/ EvalCall("p1", {"options", "legacy"}, Requests, RuleConfigs)
    \/ EvalResume("p1")
    \/ Finish("p1")

SpecEval == InitEval /\ [][NextEval]_vars

\* ------------------------------------------------------------ manager operations
\* the frame and the cache after the synchronous part of getTenantRuleConfig: a cache hit
\* returns at once, a miss queries the configuration store, which answers batches or
\* fails; own tells that the manager is the call's own, new one, whose cache is empty
GetStart(p, f, tenantId, ruleId, own) ==
    LET key == CacheKey(tenantId, ruleId)
        hit == ~own /\ CacheLive(cache, key, now)
        g == [f EXCEPT !.tenant = tenantId, !.rule = ruleId, !.own = own, !.reads = 1]
    IN  /\ cache' = IF own THEN cache ELSE CacheAfterGet(cache, key, now)
        /\ IF hit
           THEN fr' = [fr EXCEPT ![p] = [g EXCEPT !.hit = TRUE, !.rcfg = cache[key].val]]
           ELSE \E fail \in BOOLEAN, batches \in ConfigBatches(cfgDb, tenantId, ruleId) :
                   fr' = [fr EXCEPT ![p] =
                             [g EXCEPT !.cfail = fail,
                                       !.cbatches = IF fail THEN <<>> ELSE batches,
                                       !.q = 1]]

\* what getTenantRuleConfig returns once it is past its await (a hit has none)
GetResult(f) ==
    IF f.hit THEN f.rcfg ELSE IF f.cfail THEN NoConfig ELSE Resolved(f.cbatches)

\* the cache once getTenantRuleConfig is past its await
GetCache(f) ==
    IF f.hit \/ f.own THEN cache
    ELSE CacheAfterResolve(cache, CacheKey(f.tenant, f.rule), f.cfail, f.cbatches, now)

\* the cache writes of getTenantRuleConfig past its await
GetWrites(f) == IF f.hit \/ f.cfail \/ Resolved(f.cbatches) = NoConfig THEN 0 ELSE 1

\* getTenantRuleConfig(tenantId, ruleId), to its return from the cache or to its await
GetCall(p, tenants, rules) ==
    /\ pc[p] = "idle"
    /\ ops < MaxOps
    /\ \E tenantId \in tenants, ruleId \in rules :
          GetStart(p, [Frame0 EXCEPT !.op = "getTenantRuleConfig"], tenantId, ruleId, FALSE)
    /\ pc' = [pc EXCEPT ![p] = "await_config"]
    /\ ops' = ops + 1
    /\ UNCHANGED <<hist, cfgDb, now, ruleRes, gets>>

\* getTenantRuleConfig from its await on: null, the configuration (cached), or the error
GetResume(p) ==
    /\ pc[p] = "await_config"
    /\ fr[p].op = "getTenantRuleConfig"
    /\ cache' = GetCache(fr[p])
    /\ gets' = GetsAfterGet(gets, fr[p], now)
    /\ fr' = [fr EXCEPT ![p].rcfg = GetResult(fr[p]),
                        ![p].writes = GetWrites(fr[p]),
                        ![p].out = IF ~fr[p].hit /\ fr[p].cfail
                                   THEN Thrown(StoreFailure, InitialRuleRes)
                                   ELSE Returned(InitialRuleRes)]
    /\ pc' = [pc EXCEPT ![p] = "done"]
    /\ UNCHANGED <<hist, cfgDb, now, ops, ruleRes>>

\* setTenantRuleConfig(config) to its await: the save reaches the store, or fails
SetCall(p, tenants, rules) ==
    /\ pc[p] = "idle"
    /\ ops < MaxOps
    /\ \E tenantId \in tenants, ruleId \in rules, v \in {1, 2}, fail \in BOOLEAN :
          /\ fr' = [fr EXCEPT ![p] = [Frame0 EXCEPT !.op = "setTenantRuleConfig",
                                                    !.cfg = TenantConfig(tenantId, ruleId, v),
                                                    !.cfail = fail, !.saves = 1]]
          /\ cfgDb' = IF fail THEN cfgDb
                      ELSE ConfigSave(cfgDb, TenantConfig(tenantId, ruleId, v), v)
    /\ pc' = [pc EXCEPT ![p] = "await_save"]
    /\ ops' = ops + 1
    /\ UNCHANGED <<hist, cache, now, ruleRes, gets>>

\* setTenantRuleConfig from its await on: the cache is updated and true returned, or the
\* save's error is thrown
SetResume(p) ==
    /\ pc[p] = "await_save"
    /\ cache' = CacheAfterSave(cache, fr[p].cfg, fr[p].cfail, now)
    /\ gets' = IF fr[p].cfail THEN gets
               ELSE GetsMark(gets, {CacheKey(fr[p].cfg.tenantId, fr[p].cfg.id)}, "set")
    /\ fr' = [fr EXCEPT ![p].ok = ~fr[p].cfail,
                        ![p].writes = IF fr[p].cfail THEN 0 ELSE 1,
                        ![p].out = IF fr[p].cfail THEN Thrown(SaveFailure, InitialRuleRes)
                                   ELSE Returned(InitialRuleRes)]
    /\ pc' = [pc EXCEPT ![p] = "done"]
    /\ UNCHANGED <<hist, cfgDb, now, ops, ruleRes>>

\* invalidateCache(tenantId, ruleId)
InvalidateCall(p, tenants, rules) ==
    /\ pc[p] = "idle"
    /\ ops < MaxOps
    /\ \E tenantId \in tenants, ruleId \in rules :
          /\ cache' = CacheDel(cache, {CacheKey(tenantId, ruleId)})
          /\ gets' = GetsMark(gets, {CacheKey(tenantId, ruleId)}, "removed")
          /\ fr' = [fr EXCEPT ![p] = [Frame0 EXCEPT !.op = "invalidateCache",
                                                    !.tenant = tenantId, !.rule = ruleId,
                                                    !.writes = Cardinality({CacheKey(tenantId, ruleId)} \cap DOMAIN cache),
                                                    !.out = Returned(InitialRuleRes)]]
    /\ pc' = [pc EXCEPT ![p] = "done"]
    /\ ops' = ops + 1
    /\ UNCHANGED <<hist, cfgDb, now, ruleRes>>

\* clearTenantCache(tenantId)
ClearCall(p, tenants) ==
    /\ pc[p] = "idle"
    /\ ops < MaxOps
    /\ \E tenantId \in tenants :
          /\ cache' = CacheDel(cache, TenantKeys(cache, tenantId))
          /\ gets' = GetsMark(gets, TenantKeys(gets, tenantId), "removed")
          /\ fr' = [fr EXCEPT ![p] = [Frame0 EXCEPT !.op = "clearTenantCache",
                                                    !.tenant = tenantId,
                                                    !.reads = 1,
                                                    !.writes = Cardinality(TenantKeys(cache, tenantId)),
                                                    !.out = Returned(InitialRuleRes)]]
    /\ pc' = [pc EXCEPT ![p] = "done"]
    /\ ops' = ops + 1
    /\ UNCHANGED <<hist, cfgDb, now, ruleRes>>

\* time passes
Tick ==
    /\ now < MaxTime
    /\ now' = now + 1
    /\ UNCHANGED <<hist, cache, cfgDb, ops, ruleRes, pc, fr, gets>>

\* the periodic check of the cache deletes the expired entries
Sweep ==
    /\ ExpiredKeys(cache, now) # {}
    /\ cache' = CacheDel(cache, ExpiredKeys(cache, now))
    /\ UNCHANGED <<hist, cfgDb, now, ops, ruleRes, pc, fr, gets>>

InitCache ==
    /\ InitBase
    /\ hist = {}
    /\ cfgDb \in InitialStores
    /\ ruleRes = InitialRuleRes
    /\ pc = [p \in Procs |-> "idle"]
    /\ fr = [p \in Procs |-> Frame0]

NextCache ==
    \/ GetCall("p1", TenantIds, RuleIds)
    \/ GetResume("p1")
    \/ SetCall("p1", TenantIds, RuleIds)
    \/ SetResume("p1")
    \/ InvalidateCall("p1", TenantIds, RuleIds)
    \/ ClearCall("p1", TenantIds)
    \/ Finish("p1")
    \/ Tick
    \/ Sweep

SpecCache == InitCache /\ [][NextCache]_vars

\* ------------------------------------------------------------ tenant-resolved evaluation
TenantRequests ==
    {MkRequest(t, s, [k |-> "string", s |-> "dbtrAcct_1"], TriggerTime) :
        t \in {NoId("absent"), NoId("number"), StrId(EmptyId), StrId(TenantA),
                StrId(TenantAB)},
        s \in {"ACCC", "RJCT"}}

\* handleTransactionWithTenantConfig(req, options) to its await of getTenantRuleConfig, on
\* the manager of the options or, without one, on a new manager
TenantEvalCall(p, reqs, rules) ==
    /\ pc[p] = "idle"
    /\ ops < MaxOps
    /\ \E req \in reqs, baseRuleId \in rules, own \in BOOLEAN :
          LET f == [Frame0 EXCEPT !.op = "handleTransactionWithTenantConfig", !.req = req,
                                  !.rule = baseRuleId, !.own = own, !.in = ruleRes]
          IN  IF ~isTenantsRuleRequest(req)
              THEN /\ fr' = [fr EXCEPT ![p] =
                               [f EXCEPT !.out = Thrown(Err("TenantId not provided in request"),
                                                        ruleRes)]]
                   /\ pc' = [pc EXCEPT ![p] = "done"]
                   /\ cache' = cache
              ELSE /\ GetStart(p, f, req.TenantId.s, baseRuleId, own)
                   /\ pc' = [pc EXCEPT ![p] = "await_config"]
    /\ ops' = ops + 1
    /\ UNCHANGED <<hist, cfgDb, now, ruleRes, gets>>

\* handleTransactionWithTenantConfig from the manager's answer on: the store's error, no
\* configuration, or handleTransaction with the resolved configuration to its first await
TenantEvalResume(p) ==
    /\ pc[p] = "await_config"
    /\ fr[p].op = "handleTransactionWithTenantConfig"
    /\ cache' = GetCache(fr[p])
    /\ gets' = GetsAfterGet(gets, fr[p], now)
    /\ LET step == IF ~fr[p].hit /\ fr[p].cfail THEN Thrown(StoreFailure, ruleRes)
                   ELSE TenantEvalStart(fr[p].req, fr[p].rule, GetResult(fr[p]), ruleRes)
       IN  /\ fr' = [fr EXCEPT ![p].rcfg = GetResult(fr[p]),
                               ![p].cfg = GetResult(fr[p]),
                               ![p].writes = GetWrites(fr[p]),
                               ![p].out = step,
                               ![p].hq = IF step.kind = "query" THEN 1 ELSE 0]
           /\ pc' = [pc EXCEPT ![p] = IF step.kind = "query" THEN "await_history" ELSE "done"]
    /\ UNCHANGED <<hist, cfgDb, now, ops, ruleRes>>

Init ==
    /\ InitBase
    /\ hist \in {{}, AllTransactions}
    /\ cfgDb \in InitialStores
    /\ ruleRes = InitialRuleRes
    /\ pc = [p \in Procs |-> "idle"]
    /\ fr = [p \in Procs |-> Frame0]

Next ==
    \/ TenantEvalCall("p1", TenantRequests, RuleIds)
    \/ TenantEvalResume("p1")
    \/ EvalResume("p1")
    \/ GetCall("p1", TenantIds, RuleIds)
    \/ GetResume("p1")
    \/ SetCall("p1", TenantIds, RuleIds)
    \/ SetResume("p1")
    \/ InvalidateCall("p1", TenantIds, RuleIds)
    \/ Finish("p1")

Spec == Init /\ [][Next]_vars

\* ------------------------------------------------------------ two callers, one manager
\* a getTenantRuleConfig and a setTenantRuleConfig of the same key by two callers of one
\* manager: each call runs to its await, and the calls resume in either order
InitRace ==
    /\ InitBase
    /\ hist = {}
    /\ cfgDb \in InitialStores
    /\ ruleRes = InitialRuleRes
    /\ pc = [p \in Procs |-> "idle"]
    /\ fr = [p \in Procs |-> Frame0]

NextRace ==
    \/ GetCall("p1", {TenantA}, RuleIds)
    \/ GetResume("p1")
    \/ SetCall("p2", {TenantA}, RuleIds)
    \/ SetResume("p2")
    \/ Finish("p1")
    \/ Finish("p2")

SpecRace == InitRace /\ [][NextRace]_vars

\* ------------------------------------------------------------ identifiers with a colon
\* a rule id that holds the separator of the cache key, as a tenant id may
RuleB901 == <<"b", ":", "9", "0", "1">>

ColonRuleIds == {Rule901, RuleB901}

\* the manager's operations that build a cache key, on tenant and rule ids of which some
\* hold a ':'
InitKeys ==
    /\ InitBase
    /\ hist = {}
    /\ cfgDb \in {[k \in TenantIds \X ColonRuleIds |-> v] : v \in {0, 1}}
    /\ ruleRes = InitialRuleRes
    /\ pc = [p \in Procs |-> "idle"]
    /\ fr = [p \in Procs |-> Frame0]

NextKeys ==
    \/ GetCall("p1", TenantIds, ColonRuleIds)
    \/ GetResume("p1")
    \/ SetCall("p1", TenantIds, ColonRuleIds)
    \/ SetResume("p1")
    \/ InvalidateCall("p1", TenantIds, ColonRuleIds)
    \/ Finish("p1")

SpecKeys == InitKeys /\ [][NextKeys]_vars

\* ============================================================ claims
\* what the claims say of a configuration, a band and a request, in their own words
ValidConfig(c) ==
    /\ c.hasBands /\ Len(c.bands) > 0
    /\ c.hasExit
    /\ c.hasParams
    /\ c.maxQueryRange > 0

HasX00(c) == \E i \in 1 .. Len(c.exitConditions) : c.exitConditions[i].subRuleRef = ".x00"

X00Of(c) ==
    c.exitConditions[CHOOSE i \in 1 .. Len(c.exitConditions) :
                        c.exitConditions[i].subRuleRef = ".x00"]

PositiveLimits(bands) ==
    \A i \in 1 .. Len(bands) :
        /\ bands[i].lowerLimit = Absent \/ bands[i].lowerLimit > 0
        /\ bands[i].upperLimit = Absent \/ bands[i].upperLimit > 0

\* lower bound inclusive, upper bound exclusive, an absent bound open
Admits(band, c) ==
    /\ band.lowerLimit = Absent \/ c >= band.lowerLimit
    /\ band.upperLimit = Absent \/ c < band.upperLimit

Admitting(bands, c) == {i \in 1 .. Len(bands) : Admits(bands[i], c)}

FirstAdmitting(bands, c) ==
    CHOOSE i \in Admitting(bands, c) : \A j \in Admitting(bands, c) : i <= j

HasTenantId(req) == req.TenantId.k = "string"
HasDbtrAcctId(req) == req.dbtrAcctId.k = "string" /\ req.dbtrAcctId.s # ""

Evaluated(p) == pc[p] = "done" /\ fr[p].op = "handleTransaction"

\* C1: for every count c >= 0 and every band list whose present limits are positive,
\* determineOutcome gives the result the subRuleRef and reason of the first band in list
\* order that admits c (lower bound inclusive, upper bound exclusive); with the fixture's
\* bands the counts 1, 2, 3, 4 give .01, .02, .02, .03.
C1_FirstAdmittingBandWins ==
    \A p \in Procs :
        (/\ pc[p] = "done"
         /\ fr[p].op = "determineOutcome"
         /\ IsNumber(fr[p].value)
         /\ PositiveLimits(fr[p].cfg.bands))
        => LET c == fr[p].value.n
               bands == fr[p].cfg.bands
           IN  /\ Admitting(bands, c) # {} =>
                    /\ fr[p].out.kind = "return"
                    /\ fr[p].out.res =
                          [fr[p].in EXCEPT
                              !.subRuleRef = bands[FirstAdmitting(bands, c)].subRuleRef,
                              !.reason = bands[FirstAdmitting(bands, c)].reason]
                    /\ ruleRes = fr[p].out.res
               /\ (bands = TestBands /\ c \in 1 .. 4) =>
                    fr[p].out.res.subRuleRef = <<".01", ".02", ".02", ".03">>[c]

\* C1 witness: the fixture's bands classify the count 2, the first band's upper limit,
\* into the second band
C1_Witness ==
    \E p \in Procs :
        /\ pc[p] = "done"
        /\ fr[p].op = "determineOutcome"
        /\ fr[p].cfg.bands = TestBands
        /\ fr[p].value = Num(2)
        /\ fr[p].out.res.subRuleRef = ".02"

\* what C2 claims of an evaluation that took the exit
ExitResult(p) ==
    /\ fr[p].out.kind = "return"
    /\ fr[p].out.res = [fr[p].in EXCEPT !.subRuleRef = X00Of(fr[p].cfg).subRuleRef,
                                        !.reason = X00Of(fr[p].cfg).reason]
    /\ fr[p].hq = 0
    /\ ~fr[p].out.called

\* C2 as claimed: given a valid config with a '.x00' exit condition and a request whose
\* TxSts is not 'ACCC', handleTransaction returns the caller's ruleRes with only subRuleRef
\* and reason replaced by the '.x00' condition's, issues no history query and does not
\* call determineOutcome.
C2_Original ==
    \A p \in Procs :
        (/\ Evaluated(p)
         /\ ValidConfig(fr[p].cfg) /\ HasX00(fr[p].cfg)
         /\ fr[p].req.TxSts # "ACCC")
        => ExitResult(p)

\* C2 as amended: the same, for a request that also carries a dbtrAcctId in its DataCache
\* and, in the options form, a string TenantId (both are checked before the exit).
C2_ExitOnUnsuccessful ==
    \A p \in Procs :
        (/\ Evaluated(p)
         /\ ValidConfig(fr[p].cfg) /\ HasX00(fr[p].cfg)
         /\ fr[p].req.TxSts # "ACCC"
         /\ HasDbtrAcctId(fr[p].req)
         /\ fr[p].form = "options" => HasTenantId(fr[p].req))
        => ExitResult(p)

\* C2 witness: an unsuccessful transaction returned with the '.x00' condition's values in
\* place of the caller's
C2_Witness ==
    \E p \in Procs :
        /\ Evaluated(p)
        /\ fr[p].req.TxSts = "RJCT"
        /\ fr[p].in = OtherRuleRes
        /\ fr[p].out.kind = "return"
        /\ fr[p].out.res.subRuleRef = ".x00"
        /\ fr[p].out.res.cfg = "2.0.0"

\* the error of the first violated check, in the order the claim gives
FirstViolation(c) ==
    IF ~(c.hasBands /\ Len(c.bands) > 0)
    THEN "Invalid config provided - bands not provided or empty"
    ELSE IF ~c.hasExit THEN "Invalid config provided - exitConditions not provided"
    ELSE IF ~c.hasParams THEN "Invalid config provided - parameters not provided"
    ELSE "Invalid config provided - maxQueryRange parameter not provided"

ConfigRejected(p) ==
    /\ fr[p].out.kind = "throw"
    /\ fr[p].out.err.msg = FirstViolation(fr[p].cfg)
    /\ fr[p].hq = 0

\* C3 as claimed: for every config violating one or more of the checks bands,
\* exitConditions, parameters, maxQueryRange, handleTransaction raises the error of the
\* first violated check in that order, and issues no history query.
C3_Original ==
    \A p \in Procs :
        (Evaluated(p) /\ ~ValidConfig(fr[p].cfg)) => ConfigRejected(p)

\* C3 as amended: the same, for a request that passes the TenantId check, which the
\* options form makes before the config checks (the ordered-parameter form has none).
C3_ConfigChecksInOrder ==
    \A p \in Procs :
        (/\ Evaluated(p)
         /\ ~ValidConfig(fr[p].cfg)
         /\ fr[p].form = "options" => HasTenantId(fr[p].req))
        => ConfigRejected(p)

\* C3 witness: a config without exitConditions and without parameters is rejected for its
\* exitConditions
C3_Witness ==
    \E p \in Procs :
        /\ Evaluated(p)
        /\ fr[p].cfg.hasBands /\ Len(fr[p].cfg.bands) > 0
        /\ ~fr[p].cfg.hasExit /\ ~fr[p].cfg.hasParams
        /\ fr[p].out.kind = "throw"
        /\ fr[p].out.err.msg = "Invalid config provided - exitConditions not provided"

\* the history store answered with the single count n
AnsweredCount(p, n) ==
    IF fr[p].form = "options"
    THEN fr[p].answer = MkAnswer(FALSE, <<<<Num(n)>>>>, <<>>)
    ELSE fr[p].answer = MkAnswer(FALSE, <<>>, <<Num(n)>>)

GetCalled(p) == pc[p] = "idle" /\ pc'[p] = "await_config" /\ fr'[p].op = "getTenantRuleConfig"
GetReturned(p) == pc[p] = "await_config" /\ pc'[p] = "done" /\ fr[p].op = "getTenantRuleConfig"
SetCalled(p) == pc[p] = "idle" /\ pc'[p] = "await_save"
SetReturned(p) == pc[p] = "await_save" /\ pc'[p] = "done"
Invalidated(p) == pc[p] = "idle" /\ fr'[p].op = "invalidateCache"
Cleared(p) == pc[p] = "idle" /\ fr'[p].op = "clearTenantCache"
KeyOf(f) == CacheKey(f.tenant, f.rule)
StoredConfig(f) == ~f.cfail /\ Resolved(f.cbatches) # NoConfig

\* the first getTenantRuleConfig of a key to find a stored configuration: one store query,
\* and the configuration is cached under the key for the TTL
FirstGet(p, cases) ==
    GetReturned(p) /\ KeyOf(fr[p]) \notin DOMAIN gets /\ cases
        => /\ fr[p].q = 1
           /\ fr'[p].rcfg = TenantConfig(fr[p].tenant, fr[p].rule,
                                         cfgDb[<<fr[p].tenant, fr[p].rule>>])
           /\ KeyOf(fr[p]) \in DOMAIN cache'
           /\ cache'[KeyOf(fr[p])] = [val |-> fr'[p].rcfg, t |-> now + CacheTtl]

\* a later getTenantRuleConfig of the key, within the TTL of the entry the first one
\* cached and with the key not removed since: no store query, and an equal value
LaterGet(p, cases) ==
    (/\ GetCalled(p)
     /\ KeyOf(fr'[p]) \in DOMAIN gets
     /\ gets[KeyOf(fr'[p])].q = 1
     /\ ~gets[KeyOf(fr'[p])].removed
     /\ now <= gets[KeyOf(fr'[p])].t + CacheTtl
     /\ cases)
        => /\ fr'[p].q = 0
           /\ fr'[p].hit
           /\ fr'[p].rcfg = gets[KeyOf(fr'[p])].val

\* C4 as the spec has it: the first getTenantRuleConfig of a key with a stored
\* configuration issues exactly one store query and caches the result, and every later one
\* before TTL expiry with no invalidation in between issues none and returns an equal value
C4_Original ==
    [][\A p \in Procs :
          /\ FirstGet(p, (fr[p].hit \/ StoredConfig(fr[p])))
          /\ LaterGet(p, TRUE)]_vars

\* C4: on one manager, the first getTenantRuleConfig of a key that finds no entry cached
\* and a stored configuration issues exactly one store query and caches the result for
\* the TTL; every later getTenantRuleConfig of the key before that TTL expires, with no
\* invalidateCache, clearTenantCache or setTenantRuleConfig of the key in between, issues
\* no store query and returns an equal value
C4_CachedAfterFirstGet ==
    [][\A p \in Procs :
          /\ FirstGet(p, (~fr[p].hit /\ StoredConfig(fr[p])))
          /\ LaterGet(p, ~gets[KeyOf(fr'[p])].set)]_vars

C4_Witness ==
    /\ pc["p1"] = "done"
    /\ fr["p1"].op = "getTenantRuleConfig"
    /\ fr["p1"].hit
    /\ fr["p1"].q = 0
    /\ KeyOf(fr["p1"]) \in DOMAIN gets
    /\ gets[KeyOf(fr["p1"])].q = 1
    /\ ~gets[KeyOf(fr["p1"])].removed
    /\ ~gets[KeyOf(fr["p1"])].set
    /\ gets[KeyOf(fr["p1"])].t < now
    /\ fr["p1"].rcfg = gets[KeyOf(fr["p1"])].val

\* C5: setTenantRuleConfig(config) leaves the cache alone until the save has returned;
\* after a successful save, with the record in the store, it puts config under the key
\* tenantId:id, leaves every other entry alone and returns true; after a failed save it
\* throws the save's error and the cache is as it was
C5_CacheOnlyAfterSave ==
    [][\A p \in Procs :
          /\ SetCalled(p) => cache' = cache
          /\ SetReturned(p) /\ ~fr[p].cfail
                => LET key == CacheKey(fr[p].cfg.tenantId, fr[p].cfg.id)
                   IN  /\ ConfigBatches(cfgDb, fr[p].cfg.tenantId, fr[p].cfg.id)
                            = {<<<<fr[p].cfg>>>>}
                       /\ key \in DOMAIN cache'
                       /\ cache'[key].val = fr[p].cfg
                       /\ \A k \in (DOMAIN cache \cup DOMAIN cache') \ {key} :
                             k \in DOMAIN cache /\ k \in DOMAIN cache' /\ cache'[k] = cache[k]
                       /\ fr'[p].ok
                       /\ fr'[p].out.kind = "return"
          /\ SetReturned(p) /\ fr[p].cfail
                => /\ cache' = cache
                   /\ ~fr'[p].ok
                   /\ fr'[p].out.kind = "throw"
                   /\ fr'[p].out.err = SaveFailure]_vars

C5_Witness ==
    /\ pc["p1"] = "done"
    /\ fr["p1"].op = "setTenantRuleConfig"
    /\ fr["p1"].cfail
    /\ fr["p1"].out.kind = "throw"
    /\ CacheKey(fr["p1"].cfg.tenantId, fr["p1"].cfg.id) \in DOMAIN cache
    /\ cache[CacheKey(fr["p1"].cfg.tenantId, fr["p1"].cfg.id)].val # fr["p1"].cfg

\* C6 as the spec has it: after clearTenantCache(t) no entry of tenant t is left and every
\* entry of another tenant is still there, unchanged
C6_ClearsOnlyTheTenant ==
    [][\A p \in Procs :
          Cleared(p)
            => \A k \in DOMAIN cache :
                  IF cache[k].val.tenantId = fr'[p].tenant
                  THEN k \notin DOMAIN cache'
                  ELSE k \in DOMAIN cache' /\ cache'[k] = cache[k]]_vars

\* C7: invalidateCache(tenantId, ruleId) removes the entry of that pair and leaves every
\* other entry as it was, makes no call to the configuration store, and the key count
\* drops by one when the entry was there and by none otherwise
C7_InvalidateRemovesOne ==
    [][\A p \in Procs :
          Invalidated(p)
            => LET key == KeyOf(fr'[p])
               IN  /\ key \notin DOMAIN cache'
                   /\ \A k \in DOMAIN cache \ {key} :
                         k \in DOMAIN cache' /\ cache'[k] = cache[k]
                   /\ DOMAIN cache' \subseteq DOMAIN cache
                   /\ cfgDb' = cfgDb
                   /\ fr'[p].q = 0
                   /\ fr'[p].saves = 0
                   /\ CacheStatsKeys(cache) - CacheStatsKeys(cache')
                        = IF key \in DOMAIN cache THEN 1 ELSE 0]_vars

C7_Witness ==
    /\ pc["p1"] = "done"
    /\ fr["p1"].op = "invalidateCache"
    /\ fr["p1"].writes = 1
    /\ KeyOf(fr["p1"]) \notin DOMAIN cache
    /\ CacheStatsKeys(cache) = 1

TenantEvalCalled(p) ==
    pc[p] = "idle" /\ fr'[p].op = "handleTransactionWithTenantConfig"
TenantEvalResumed(p) ==
    pc[p] = "await_config" /\ fr[p].op = "handleTransactionWithTenantConfig"

\* C8: handleTransactionWithTenantConfig on a request without a tenant identifier throws
\* 'TenantId not provided in request' at once: no configuration-store query, no history
\* query, no read and no write of the cache
C8_NoTenantIdNoAccess ==
    [][\A p \in Procs :
          TenantEvalCalled(p) /\ ~HasTenantId(fr'[p].req)
            => /\ pc'[p] = "done"
               /\ fr'[p].out.kind = "throw"
               /\ fr'[p].out.err = Err("TenantId not provided in request")
               /\ fr'[p].q = 0
               /\ fr'[p].hq = 0
               /\ fr'[p].saves = 0
               /\ fr'[p].reads = 0
               /\ fr'[p].writes = 0
               /\ cache' = cache
               /\ cfgDb' = cfgDb]_vars

C8_Witness ==
    /\ pc["p1"] = "done"
    /\ fr["p1"].op = "handleTransactionWithTenantConfig"
    /\ ~HasTenantId(fr["p1"].req)
    /\ fr["p1"].out.kind = "throw"
    /\ cache # EmptyCache

\* C9: handleTransactionWithTenantConfig on a request with a tenant identifier whose
\* configuration resolves to none throws 'No rule configuration found for tenant: X,
\* rule: Y' with X the request's tenant and Y the base rule id, and issues no history query
C9_NoConfigNoHistoryQuery ==
    [][\A p \in Procs :
          TenantEvalResumed(p) /\ HasTenantId(fr[p].req) /\ ~fr[p].hit /\ ~fr[p].cfail
                               /\ Resolved(fr[p].cbatches) = NoConfig
            => /\ pc'[p] = "done"
               /\ fr'[p].out.kind = "throw"
               /\ fr'[p].out.err = NoRuleConfigError(fr[p].req.TenantId.s, fr[p].rule)
               /\ fr'[p].out.err.tenant = fr[p].req.TenantId.s
               /\ fr'[p].hq = 0]_vars

C9_Witness ==
    /\ pc["p1"] = "done"
    /\ fr["p1"].op = "handleTransactionWithTenantConfig"
    /\ fr["p1"].req.TenantId = StrId(TenantAB)
    /\ fr["p1"].q = 1
    /\ fr["p1"].rcfg = NoConfig
    /\ fr["p1"].out.kind = "throw"
    /\ fr["p1"].out.err = NoRuleConfigError(TenantAB, fr["p1"].rule)
    /\ fr["p1"].hq = 0

\* the history store answered the evaluation's query with a count: the value Step 4 reads
Answered(p) ==
    /\ Evaluated(p)
    /\ fr[p].hq = 1
    /\ ~fr[p].answer.fail
    /\ fr[p].form = "legacy" => Len(fr[p].answer.rows) > 0

YieldedCount(p) ==
    IF fr[p].form = "options" THEN unwrap(fr[p].answer.batches) ELSE fr[p].answer.rows[1]

DataError(p, m) ==
    /\ fr[p].out.kind = "throw"
    /\ fr[p].out.err = Err(m)
    /\ ~fr[p].out.called
    /\ fr[p].out.res = fr[p].in
    /\ ruleRes = fr[p].in

\* C11: when the history store yields a null or undefined count handleTransaction throws
\* 'Data error: irretrievable transaction history', and when it yields a non-null value
\* that is not a number it throws 'Data error: query result type mismatch - expected a
\* number'; either way determineOutcome is not called and the caller's ruleRes is as it was
C11_DataErrors ==
    \A p \in Procs :
        Answered(p)
        => /\ IsNullish(YieldedCount(p))
                => DataError(p, "Data error: irretrievable transaction history")
           /\ (~IsNullish(YieldedCount(p)) /\ ~IsNumber(YieldedCount(p)))
                => DataError(p, "Data error: query result type mismatch - expected a number")

C11_Witness ==
    \E p \in Procs :
        /\ Answered(p)
        /\ YieldedCount(p) = StrVal
        /\ fr[p].in = OtherRuleRes
        /\ fr[p].out.err.msg = "Data error: query result type mismatch - expected a number"

\* what C12 claims of an unsuccessful transaction without a '.x00' exit condition
NoExitError(p) ==
    /\ fr[p].out.kind = "throw"
    /\ fr[p].out.err = Err("Unsuccessful transaction and no exit condition in config")
    /\ fr[p].hq = 0

\* C12 as claimed: when TxSts is not 'ACCC' and the otherwise valid config has no '.x00'
\* exit condition, handleTransaction throws 'Unsuccessful transaction and no exit
\* condition in config' and issues no history query
C12_Original ==
    \A p \in Procs :
        (/\ Evaluated(p)
         /\ ValidConfig(fr[p].cfg) /\ ~HasX00(fr[p].cfg)
         /\ fr[p].req.TxSts # "ACCC")
        => NoExitError(p)

\* C12 as amended: the same, for a request that also carries a dbtrAcctId in its DataCache
\* and, in the options form, a string TenantId (both are checked before the exit step)
C12_NoExitCondition ==
    \A p \in Procs :
        (/\ Evaluated(p)
         /\ ValidConfig(fr[p].cfg) /\ ~HasX00(fr[p].cfg)
         /\ fr[p].req.TxSts # "ACCC"
         /\ HasDbtrAcctId(fr[p].req)
         /\ fr[p].form = "options" => HasTenantId(fr[p].req))
        => NoExitError(p)

C12_Witness ==
    \E p \in Procs :
        /\ Evaluated(p)
        /\ fr[p].form = "options"
        /\ fr[p].req.TxSts = "RJCT"
        /\ fr[p].cfg.exitConditions = <<ExitOther>>
        /\ fr[p].out.err.msg = "Unsuccessful transaction and no exit condition in config"

\* the whole of an evaluation on the history store h when the store answers the query with
\* its count, in each form
CountAnswer(h, q, form) ==
    IF form = "options" THEN MkAnswer(FALSE, <<<<Num(HistoryCount(h, q, "accounts/"))>>>>, <<>>)
    ELSE MkAnswer(FALSE, <<>>, <<Num(HistoryCount(h, q, ""))>>)

OutcomeOf(form, req, ruleConfig, res, h) ==
    LET start == IF form = "options" THEN handleTransactionStart(req, ruleConfig, res)
                 ELSE handleTransactionLegacyStart(req, ruleConfig, res)
    IN  IF start.kind # "query" THEN start
        ELSE IF form = "options"
        THEN handleTransactionResume(CountAnswer(h, start.query, form), ruleConfig, res)
        ELSE handleTransactionLegacyResume(CountAnswer(h, start.query, form), ruleConfig, res)

\* the same returned result or the same error
SameOutcome(a, b) == a.kind = b.kind /\ a.err = b.err /\ a.res = b.res

\* the query of the evaluation of p
BuildQueryOf(p) ==
    IF fr[p].form = "options" THEN BuildQuery(fr[p].req, fr[p].cfg)
    ELSE BuildQueryLegacy(fr[p].req, fr[p].cfg)

\* the store answered the evaluation's query, if it made one, with its count
CountedOrEnded(p) ==
    fr[p].hq = 1 => fr[p].answer = CountAnswer(hist, BuildQueryOf(p), fr[p].form)

OtherForm(form) == IF form = "options" THEN "legacy" ELSE "options"

\* C13 as the spec has it: for every request, configuration and history-store content the
\* ordered-parameter form of handleTransaction gives the same outcome, result or error, as
\* the options form with the same values
C13_FormsAgree ==
    \A p \in Procs :
        (Evaluated(p) /\ CountedOrEnded(p))
        => SameOutcome(fr[p].out,
                       OutcomeOf(OtherForm(fr[p].form), fr[p].req, fr[p].cfg, fr[p].in, hist))

\* C14: getTenantRuleConfig returns null and throws nothing whenever the configuration
\* store answers its one query without failing and without a record: no batch, or an
\* empty first batch; nothing is cached
C14_NotFoundIsNull ==
    [][\A p \in Procs :
          (/\ GetReturned(p)
           /\ ~fr[p].hit
           /\ ~fr[p].cfail
           /\ Len(fr[p].cbatches) = 0 \/ Len(fr[p].cbatches[1]) = 0)
          => /\ fr'[p].out.kind = "return"
             /\ fr'[p].out.err = NoError
             /\ fr'[p].rcfg = NoConfig
             /\ fr'[p].q = 1
             /\ cache' = cache]_vars

C14_Witness ==
    /\ pc["p1"] = "done"
    /\ fr["p1"].op = "getTenantRuleConfig"
    /\ ~fr["p1"].cfail
    /\ fr["p1"].cbatches = <<<<>>>>
    /\ fr["p1"].q = 1
    /\ fr["p1"].rcfg = NoConfig
    /\ fr["p1"].out.kind = "return"

TenantEvaluated(p) == pc[p] = "done" /\ fr[p].op = "handleTransactionWithTenantConfig"

\* what handleTransaction(req, options) gives for the request, the configuration and the
\* ruleRes of the call of p, the history store answering as it answered p
DirectOutcome(p, ruleConfig) ==
    LET start == handleTransactionStart(fr[p].req, ruleConfig, fr[p].in)
    IN  IF start.kind # "query" THEN start
        ELSE handleTransactionResume(fr[p].answer, ruleConfig, fr[p].in)

\* a tenant-resolved evaluation that resolved a configuration gives the outcome of the
\* direct evaluation with that configuration
AsDirect(p) ==
    /\ SameOutcome(fr[p].out, DirectOutcome(p, fr[p].rcfg))
    /\ fr[p].out.called = DirectOutcome(p, fr[p].rcfg).called

\* the request and the configuration take the evaluation as far as the history count
ReachesCount(req, c) == ValidConfig(c) /\ HasDbtrAcctId(req) /\ req.TxSts = "ACCC"

\* C15 as the spec has it: with a tenant configuration resolved,
\* handleTransactionWithTenantConfig gives exactly the outcome of the direct
\* handleTransaction with that configuration, and on a cold cache it costs exactly one
\* configuration-store query and exactly one history query
C15_Original ==
    \A p \in Procs :
        (TenantEvaluated(p) /\ fr[p].rcfg # NoConfig)
        => /\ AsDirect(p)
           /\ ~fr[p].hit => (fr[p].q = 1 /\ fr[p].hq = 1)

\* C15: with a tenant configuration resolved, handleTransactionWithTenantConfig gives
\* exactly the outcome of the direct handleTransaction with that configuration; on a cold
\* cache it costs exactly one configuration-store query, and one history query when the
\* evaluation gets as far as the history count, none when it ends before (at a guard or
\* at the exit step)
C15_TenantAsDirect ==
    \A p \in Procs :
        (TenantEvaluated(p) /\ fr[p].rcfg # NoConfig)
        => /\ AsDirect(p)
           /\ ~fr[p].hit => fr[p].q = 1
           /\ fr[p].hit => fr[p].q = 0
           /\ fr[p].hq = IF ReachesCount(fr[p].req, fr[p].rcfg) THEN 1 ELSE 0

C15_Witness ==
    /\ TenantEvaluated("p1")
    /\ fr["p1"].rcfg = TenantConfig(TenantA, Rule901, 2)
    /\ ~fr["p1"].hit
    /\ fr["p1"].q = 1
    /\ fr["p1"].hq = 1
    /\ fr["p1"].answer = MkAnswer(FALSE, <<<<Num(2)>>>>, <<>>)
    /\ fr["p1"].out.kind = "return"
    /\ fr["p1"].out.res.subRuleRef = ".02"

HistoryAnswered(p) == pc[p] = "await_history" /\ pc'[p] = "done"

\* C16: a failure of the configuration store during getTenantRuleConfig, or of the
\* history store during handleTransaction, is thrown to the caller as that same error
\* after the one call of the store that failed, and no result is returned (nor cached)
C16_StoreFailurePropagates ==
    [][\A p \in Procs :
          /\ (GetReturned(p) /\ ~fr[p].hit /\ fr[p].cfail)
                => /\ fr'[p].out.kind = "throw"
                   /\ fr'[p].out.err = StoreFailure
                   /\ fr'[p].q = 1
                   /\ fr'[p].rcfg = NoConfig
                   /\ cache' = cache
          /\ (TenantEvalResumed(p) /\ ~fr[p].hit /\ fr[p].cfail)
                => /\ pc'[p] = "done"
                   /\ fr'[p].out.kind = "throw"
                   /\ fr'[p].out.err = StoreFailure
                   /\ fr'[p].q = 1
                   /\ fr'[p].hq = 0
                   /\ cache' = cache
          /\ (HistoryAnswered(p) /\ fr'[p].answer.fail)
                => /\ fr'[p].out.kind = "throw"
                   /\ fr'[p].out.err = StoreFailure
                   /\ fr'[p].hq = 1
                   /\ ~fr'[p].out.called
                   /\ fr'[p].out.res = fr[p].in
                   /\ ruleRes' = ruleRes]_vars

C16_Witness ==
    /\ TenantEvaluated("p1")
    /\ fr["p1"].rcfg # NoConfig
    /\ fr["p1"].q = 1
    /\ fr["p1"].hq = 1
    /\ fr["p1"].answer.fail
    /\ fr["p1"].out.kind = "throw"
    /\ fr["p1"].out.err = StoreFailure

\* what C17 claims of a request without a dbtrAcctId
NoAcctError(p) ==
    /\ fr[p].out.kind = "throw"
    /\ fr[p].out.err = Err("Data Cache does not have required dbtrAcctId")
    /\ fr[p].hq = 0

\* C17 as claimed: when the request's DataCache has no dbtrAcctId and the config is valid,
\* handleTransaction fails with 'Data Cache does not have required dbtrAcctId' and issues
\* no history query
C17_Original ==
    \A p \in Procs :
        (Evaluated(p) /\ ValidConfig(fr[p].cfg) /\ ~HasDbtrAcctId(fr[p].req))
        => NoAcctError(p)

\* C17 as amended: the same, for a request that, in the options form, carries a string
\* TenantId (checked before the config and the dbtrAcctId); the error comes whatever the
\* TxSts and the exit conditions are
C17_NoDbtrAcctId ==
    \A p \in Procs :
        (/\ Evaluated(p)
         /\ ValidConfig(fr[p].cfg)
         /\ ~HasDbtrAcctId(fr[p].req)
         /\ fr[p].form = "options" => HasTenantId(fr[p].req))
        => NoAcctError(p)

C17_Witness ==
    \E p \in Procs :
        /\ Evaluated(p)
        /\ fr[p].form = "options"
        /\ ValidConfig(fr[p].cfg)
        /\ fr[p].req.TxSts = "RJCT"
        /\ ~HasDbtrAcctId(fr[p].req)
        /\ fr[p].out.err.msg = "Data Cache does not have required dbtrAcctId"
        /\ fr[p].hq = 0

NonEmptyTenantId(req) == req.TenantId.k = "string" /\ req.TenantId.s # EmptyId

\* C18: tenant-aware evaluation accepts a request only when its TenantId is a non-empty
\* string: a request whose TenantId is absent, not a string or the empty string is
\* rejected with 'TenantId not provided in request' before any configuration-store or
\* history query and before any use of the cache
C18_OnlyNonEmptyTenantId ==
    \A p \in Procs :
        (TenantEvaluated(p) /\ ~NonEmptyTenantId(fr[p].req))
        => /\ fr[p].out.kind = "throw"
           /\ fr[p].out.err = Err("TenantId not provided in request")
           /\ fr[p].q = 0
           /\ fr[p].hq = 0
           /\ fr[p].reads = 0
           /\ fr[p].writes = 0

\* C19: the options form of handleTransaction, given a request without a string TenantId,
\* throws 'TenantId not provided in request' whatever the config is, valid or not, and
\* issues no history query
C19_TenantIdBeforeConfig ==
    \A p \in Procs :
        (Evaluated(p) /\ fr[p].form = "options" /\ ~HasTenantId(fr[p].req))
        => /\ fr[p].out.kind = "throw"
           /\ fr[p].out.err = Err("TenantId not provided in request")
           /\ fr[p].hq = 0
           /\ ~fr[p].out.called

C19_Witness ==
    \E p \in Procs :
        /\ Evaluated(p)
        /\ fr[p].form = "options"
        /\ fr[p].req.TenantId = NoId("absent")
        /\ ~ValidConfig(fr[p].cfg)
        /\ fr[p].out.err.msg = "TenantId not provided in request"
        /\ fr[p].hq = 0

\* a stored transaction of the request's debtor account and of the counted type (in the
\* options form, of the request's tenant too) whose CreDtTm t has T - maxQueryRange <= t
\* and t <= T, T being the request's CreDtTm
InWindow(tx, req, ruleConfig, form) ==
    /\ tx.acct = req.dbtrAcctId.s
    /\ tx.TxTp = "pacs.002.001.12"
    /\ form = "options" => tx.TenantId = req.TenantId.s
    /\ req.CreDtTm - ruleConfig.maxQueryRange <= tx.CreDtTm
    /\ tx.CreDtTm <= req.CreDtTm

WindowCount(h, req, ruleConfig, form) ==
    Cardinality({tx \in h : InWindow(tx, req, ruleConfig, form)})

\* C20: the count that handleTransaction hands to determineOutcome is the number of stored
\* transactions of the debtor account whose CreDtTm t has T - maxQueryRange <= t <= T, in
\* the ordered-parameter form as in the options form: a transaction before the window or
\* after T is never counted
C20_CountsTheWindow ==
    \A p \in Procs :
        (Answered(p) /\ IsNumber(YieldedCount(p)))
        => /\ fr[p].out.called
           /\ YieldedCount(p) = Num(WindowCount(hist, fr[p].req, fr[p].cfg, fr[p].form))

\* the transactions of tenant t held by the store h
OfTenant(h, t) == {tx \in h : tx.TenantId = t}

\* C21: in tenant mode (the options form, whose request carries the tenant) the count and
\* the result are those of every history store that holds the same transactions of the
\* request's tenant, whatever it holds of other tenants
C21_TenantIsolation ==
    \A p \in Procs :
        (/\ Evaluated(p)
         /\ fr[p].form = "options"
         /\ HasTenantId(fr[p].req)
         /\ CountedOrEnded(p))
        => \A h2 \in SUBSET AllTransactions :
              OfTenant(h2, fr[p].req.TenantId.s) = OfTenant(hist, fr[p].req.TenantId.s)
              => /\ fr[p].hq = 1
                    => YieldedCount(p) = Num(HistoryCount(h2, BuildQueryOf(p), "accounts/"))
                 /\ SameOutcome(fr[p].out,
                                OutcomeOf("options", fr[p].req, fr[p].cfg, fr[p].in, h2))

\* C21 witness: a store holding transactions of two tenants to the account, and the count
\* of the request's tenant alone
C21_Witness ==
    \E p \in Procs :
        /\ Evaluated(p)
        /\ fr[p].form = "options"
        /\ fr[p].req.TenantId = StrId(TenantA)
        /\ hist = AllTransactions
        /\ fr[p].hq = 1
        /\ YieldedCount(p) = Num(2)
        /\ fr[p].out.called

\* C22: an evaluation does not modify the ruleRes it was given, so that an evaluation run
\* before another, or interleaved with it, on the same caller-supplied ruleRes object
\* leaves the other's result as it would be alone: when handleTransaction has ended the
\* caller's ruleRes holds what it held at the call
C22_RuleResUntouched ==
    \A p \in Procs : Evaluated(p) => ruleRes = fr[p].in

C24_ZeroLimitIsABound ==
    \A p \in Procs :
        (/\ pc[p] = "done"
         /\ fr[p].op = "determineOutcome"
         /\ IsNumber(fr[p].value))
        => LET c == fr[p].value.n
               bands == fr[p].cfg.bands
           IN  /\ fr[p].out.kind = "return"
               /\ fr[p].out.res =
                     IF Admitting(bands, c) = {} THEN fr[p].in
                     ELSE [fr[p].in EXCEPT
                              !.subRuleRef = bands[FirstAdmitting(bands, c)].subRuleRef,
                              !.reason = bands[FirstAdmitting(bands, c)].reason]

\* C25: an entry lives for the TTL from the moment it was set or set again: every write of
\* the cache gives the entry the lifetime now + TTL; an entry leaves the cache only once
\* that time has passed or through invalidateCache or clearTenantCache; a
\* getTenantRuleConfig of a key whose entry is past its time, swept or still held, does
\* not return it and queries the configuration store; one of a key whose entry is within
\* its time returns the entry's value without a query
C25_EntryLivesForTtl ==
    [][/\ \A k \in DOMAIN cache' :
             (k \notin DOMAIN cache \/ cache'[k] # cache[k])
                => cache'[k].t = now + CacheTtl
       /\ \A k \in DOMAIN cache \ DOMAIN cache' :
             \/ cache[k].t < now
             \/ \E p \in Procs : Invalidated(p) \/ Cleared(p)
       /\ \A p \in Procs :
             GetCalled(p) =>
                LET k == KeyOf(fr'[p])
                IN  /\ (k \in DOMAIN cache /\ cache[k].t < now)
                         => (~fr'[p].hit /\ fr'[p].q = 1 /\ k \notin DOMAIN cache')
                    /\ k \notin DOMAIN cache
                         => (~fr'[p].hit /\ fr'[p].q = 1)
                    /\ (k \in DOMAIN cache /\ now <= cache[k].t)
                         => (/\ fr'[p].hit
                             /\ fr'[p].q = 0
                             /\ fr'[p].rcfg = cache[k].val
                             /\ cache' = cache)]_vars

\* C25 witness: a getTenantRuleConfig that queried the store again for a key cached by an
\* earlier one whose TTL has passed, with no removal and no set of the key in between
C25_Witness ==
    /\ pc["p1"] = "done"
    /\ fr["p1"].op = "getTenantRuleConfig"
    /\ ~fr["p1"].hit
    /\ fr["p1"].q = 1
    /\ fr["p1"].rcfg # NoConfig
    /\ KeyOf(fr["p1"]) \in DOMAIN gets
    /\ gets[KeyOf(fr["p1"])].q = 1
    /\ ~gets[KeyOf(fr["p1"])].removed
    /\ ~gets[KeyOf(fr["p1"])].set
    /\ gets[KeyOf(fr["p1"])].t + CacheTtl < now

\* the history store answered with no rows: no batch or an empty batch from batches.all(),
\* an empty res.rows
NoRows(p) ==
    /\ Evaluated(p)
    /\ fr[p].hq = 1
    /\ ~fr[p].answer.fail
    /\ IF fr[p].form = "options"
       THEN fr[p].answer.batches \in {<<>>, <<<<>>>>}
       ELSE fr[p].answer.rows = <<>>

\* C26: when the history store answers with no rows, handleTransaction throws 'Data
\* error: irretrievable transaction history' and no other error, in the ordered-parameter
\* form as in the options form
C26_NoRowsIsIrretrievable ==
    \A p \in Procs :
        NoRows(p)
        => /\ fr[p].out.kind = "throw"
           /\ fr[p].out.err = Err("Data error: irretrievable transaction history")

\* every call has completed
Quiescent == \A p \in Procs : pc[p] \in {"idle", "done"}

\* C27: under every interleaving of getTenantRuleConfig and setTenantRuleConfig calls on
\* one manager, once all calls have completed the value cached for a key, if any, is the
\* record the configuration store holds for it (the one last written)
C27_CacheNotBehindStore ==
    Quiescent
    => \A tenantId \in TenantIds, ruleId \in RuleIds :
          CacheKey(tenantId, ruleId) \in DOMAIN cache
          => cache[CacheKey(tenantId, ruleId)].val =
                TenantConfig(tenantId, ruleId, cfgDb[<<tenantId, ruleId>>])

\* C28: two (tenantId, ruleId) pairs that differ never share a cache entry: the
\* configuration that getTenantRuleConfig(tenantId, ruleId) returns, from the cache or
\* from the store, is one of that tenant and that rule
C28_NoSharedEntry ==
    \A p \in Procs :
        (/\ pc[p] = "done"
         /\ fr[p].op = "getTenantRuleConfig"
         /\ fr[p].rcfg # NoConfig)
        => /\ fr[p].rcfg.tenantId = fr[p].tenant
           /\ fr[p].rcfg.id = fr[p].rule

\* the pair a frame's getTenantRuleConfig is about
PairOf(f) == <<f.tenant, f.rule>>

\* C29: a not-found resolution is never cached: a getTenantRuleConfig that finds no record
\* returns null and leaves no entry under the key; the cache holds no entry for a key as
\* long as the store holds no record for it, and every getTenantRuleConfig of a key
\* without an entry issues a new store query; once a record is stored, the next lookup
\* of the key returns it
C29_NotFoundNeverCached ==
    [][/\ \A tenantId \in TenantIds, ruleId \in RuleIds :
             cfgDb[<<tenantId, ruleId>>] = 0 => CacheKey(tenantId, ruleId) \notin DOMAIN cache
       /\ \A p \in Procs :
             /\ (GetReturned(p) /\ ~fr[p].hit /\ ~fr[p].cfail
                    /\ Resolved(fr[p].cbatches) = NoConfig)
                   => /\ fr'[p].rcfg = NoConfig
                      /\ fr'[p].out.kind = "return"
                      /\ KeyOf(fr[p]) \notin DOMAIN cache'
                      /\ cache' = cache
             /\ (GetCalled(p) /\ KeyOf(fr'[p]) \notin DOMAIN cache)
                   => (~fr'[p].hit /\ fr'[p].q = 1)
             /\ (GetReturned(p) /\ (fr[p].hit \/ ~fr[p].cfail) /\ cfgDb[PairOf(fr[p])] # 0)
                   => fr'[p].rcfg = TenantConfig(fr[p].tenant, fr[p].rule,
                                                 cfgDb[PairOf(fr[p])])]_vars

\* C29 witness: a lookup that found no record has returned null and left the cache
\* without an entry for its key
C29_Witness ==
    /\ pc["p1"] = "done"
    /\ fr["p1"].op = "getTenantRuleConfig"
    /\ fr["p1"].q = 1
    /\ fr["p1"].cbatches = <<<<>>>>
    /\ fr["p1"].rcfg = NoConfig
    /\ fr["p1"].out.kind = "return"
    /\ KeyOf(fr["p1"]) \notin DOMAIN cache
    /\ cfgDb[PairOf(fr["p1"])] = 0

\* C30 as claimed: a request whose TxSts is not 'ACCC' and whose DataCache lacks
\* dbtrAcctId fails with 'Data Cache does not have required dbtrAcctId', a '.x00' exit
\* condition being configured or not, instead of returning the exit result
C30_Original ==
    \A p \in Procs :
        (Evaluated(p) /\ fr[p].req.TxSts # "ACCC" /\ ~HasDbtrAcctId(fr[p].req))
        => NoAcctError(p)

\* C30 as amended: the same, for a valid config and, in the options form, a request with
\* a string TenantId (the TenantId check and the config checks run before the dbtrAcctId
\* check); the exit result is not returned and determineOutcome is not called
C30_AcctBeforeExit ==
    \A p \in Procs :
        (/\ Evaluated(p)
         /\ fr[p].req.TxSts # "ACCC"
         /\ ~HasDbtrAcctId(fr[p].req)
         /\ ValidConfig(fr[p].cfg)
         /\ fr[p].form = "options" => HasTenantId(fr[p].req))
        => /\ NoAcctError(p)
           /\ fr[p].out.res = fr[p].in
           /\ ~fr[p].out.called

\* C30 witness: the ordered-parameter form with a '.x00' exit condition configured
C30_Witness ==
    \E p \in Procs :
        /\ Evaluated(p)
        /\ fr[p].form = "legacy"
        /\ fr[p].req.TxSts = "RJCT"
        /\ ~HasDbtrAcctId(fr[p].req)
        /\ ValidConfig(fr[p].cfg)
        /\ HasX00(fr[p].cfg)
        /\ fr[p].out.kind = "throw"
        /\ fr[p].out.err.msg = "Data Cache does not have required dbtrAcctId"

====
